---------------------------- MODULE Spec2Model ----------------------------
(***************************************************************************)
(* Model of cryptobot (src/main.rs): the price ingestion loop of main and  *)
(* the replay exporter replay_data, with the Redis store (one string key   *)
(* and one list key per pair) and the Telegram channel they talk to.       *)
(*                                                                         *)
(* One step of the model is one call that leaves the process (an HTTP      *)
(* fetch, one Redis command, one Telegram send, the sleep) together with   *)
(* the local computation that follows it up to the next such call.         *)
(***************************************************************************)
EXTENDS Integers, Sequences, FiniteSets, TLC

(***************************************************************************)
(* Program constants                                                       *)
(***************************************************************************)

\* const CHUNK_SIZE: isize = 100
CHUNK_SIZE == 100

\* the stop index of con.ltrim(&key, 0, 23)
TRIM_STOP == 23

\* config.pairs, in configuration order
Pairs == <<"XBTUSD", "ETHUSD">>

(***************************************************************************)
(* Bounds of the model                                                     *)
(***************************************************************************)

\* number of fetches the model follows (each fetch reads a later clock value)
MaxClock == 3

\* number of times the process is started on the same store
MaxRuns == 2

\* number of pages of a pre-existing History List the replay model covers
MaxPages == 2

(***************************************************************************)
(* Serialized quotes: PriceData, serde_json::to_string / from_str          *)
(***************************************************************************)

\* struct PriceData { price, timestamp }
PriceData(p, t) == [price |-> p, timestamp |-> t]

\* serde_json::to_string(&price_data): the JSON text of the two fields
to_string(pd) == [complete |-> TRUE, price |-> pd.price, timestamp |-> pd.timestamp]

\* a stored text cut short (truncated JSON): the fields are still in it,
\* the text no longer parses
Truncated(s) == [s EXCEPT !.complete = FALSE]

\* a parser that accepts a text cut short
from_strLenient(s) == <<PriceData(s.price, s.timestamp)>>

\* serde_json::from_str::<PriceData>(&json): <<pd>> for Ok(pd), <<>> for Err
from_str(s) == IF s.complete THEN <<PriceData(s.price, s.timestamp)>> ELSE <<>>

(***************************************************************************)
(* Redis commands on the values of the store                               *)
(***************************************************************************)

Min(a, b) == IF a < b THEN a ELSE b
Max(a, b) == IF a > b THEN a ELSE b

\* LRANGE key start stop: both ends inclusive, zero-based, negative counts
\* from the tail, out-of-range ends are clipped, a missing key is empty
LRange(list, first, last) ==
    LET n  == Len(list)
        lo == Max(IF first < 0 THEN n + first ELSE first, 0)
        hi == Min(IF last < 0 THEN n + last ELSE last, n - 1)
    IN  IF lo > hi THEN <<>> ELSE SubSeq(list, lo + 1, hi + 1)

\* LPUSH mistaken for RPUSH: insert at the tail
LPushTail(list, v) == list \o <<v>>

\* LPUSH key value: insert at the head
LPush(list, v) == <<v>> \o list

\* LTRIM whose stop index is one too far: one entry too many is kept
LTrimKeepsOneMore(list, first, last) == LRange(list, first, last + 1)

\* LTRIM key start stop: keep only the range LRANGE would return
LTrim(list, first, last) == LRange(list, first, last)

(***************************************************************************)
(* Kraken responses (serde_json::Value) and the price extraction           *)
(***************************************************************************)

JNull      == [t |-> "null"]
JStr(s)    == [t |-> "str", s |-> s]
JNum(n)    == [t |-> "num", n |-> n]
JArr(a)    == [t |-> "arr", a |-> a]
\* an object: its keys and its values, in the map's iteration order
JObj(k, v) == [t |-> "obj", k |-> k, v |-> v]

\* Option<T> as a sequence of length 0 or 1
None    == <<>>
Some(x) == <<x>>
as_object(j)   == IF j.t = "obj" THEN Some(j) ELSE None
first_value(o) == IF Len(o.v) = 0 THEN None ELSE Some(o.v[1])
get_key(j, key) ==
    IF j.t # "obj" THEN None
    ELSE IF \E i \in DOMAIN j.k : j.k[i] = key
         THEN Some(j.v[CHOOSE i \in DOMAIN j.k : j.k[i] = key])
         ELSE None
get_index(j, i) ==
    IF j.t = "arr" /\ i + 1 \in DOMAIN j.a THEN Some(j.a[i + 1]) ELSE None
as_str(j) == IF j.t = "str" THEN Some(j.s) ELSE None

unwrap_or(o, default) == IF o = None THEN default ELSE o[1]

\* kraken_data.result.as_object().and_then(|obj| obj.values().next())
\*   .and_then(|pair| pair.get("c")).and_then(|c| c.get(0))
\*   .and_then(|p| p.as_str()).unwrap_or("N/A")
\* (and_then passes a None on and applies the closure to a Some)
ExtractPrice(result) ==
    LET obj == as_object(result)
        val == IF obj = None THEN None ELSE first_value(obj[1])
        c   == IF val = None THEN None ELSE get_key(val[1], "c")
        p   == IF c = None THEN None ELSE get_index(c[1], 0)
        str == IF p = None THEN None ELSE as_str(p[1])
    IN  unwrap_or(str, "N/A")

\* the shape of a result that holds a last-trade price: an object whose
\* first value is an object with a "c" array whose first element is a string
HasClose(result) ==
    /\ result.t = "obj"
    /\ Len(result.v) > 0
    /\ result.v[1].t = "obj"
    /\ \E i \in DOMAIN result.v[1].k :
          /\ result.v[1].k[i] = "c"
          /\ result.v[1].v[i].t = "arr"
          /\ Len(result.v[1].v[i].a) > 0
          /\ result.v[1].v[i].a[1].t = "str"

Ticker(price) == JObj(<<"a", "c">>, <<JArr(<<JStr("42000.6")>>), JArr(<<JStr(price), JStr("0.001")>>)>>)

\* the bodies the endpoint answers with, as KrakenResponse { result, error }
Responses == <<
    [error |-> <<>>, result |-> JObj(<<"XXBTZUSD">>, <<Ticker("42000.5")>>)],
    [error |-> <<>>, result |-> JObj(<<"XETHZUSD", "XXBTZUSD">>, <<Ticker("3100.25"), Ticker("42000.5")>>)],
    [error |-> <<>>, result |-> JObj(<<>>, <<>>)],
    [error |-> <<>>, result |-> JNull],
    [error |-> <<>>, result |-> JObj(<<"XXBTZUSD">>, <<JObj(<<"a">>, <<JArr(<<JStr("42000.6")>>)>>)>>)],
    [error |-> <<>>, result |-> JObj(<<"XXBTZUSD">>, <<JObj(<<"c">>, <<JArr(<<>>)>>)>>)],
    [error |-> <<>>, result |-> JObj(<<"XXBTZUSD">>, <<JObj(<<"c">>, <<JArr(<<JNum(42000)>>)>>)>>)],
    [error |-> <<"EQuery:Unknown asset pair">>, result |-> JObj(<<"XXBTZUSD">>, <<Ticker("42000.5")>>)],
    [error |-> <<"EGeneral:Internal error">>, result |-> JObj(<<>>, <<>>)]
>>

(***************************************************************************)
(* Messages                                                                *)
(***************************************************************************)

\* format!("Price Update\n\nPair: {}\nPrice: ${}\nTime: {}", pair, price, timestamp)
UpdateMessage(pair, p, t) ==
    [kind |-> "Price Update", pair |-> pair, price |-> p, timestamp |-> t]

\* format!("Historical Price\n\nPair: {}\nPrice: ${}\nTime: {}", pair, price, timestamp)
HistoricalMessage(pair, pd) ==
    [kind |-> "Historical Price", pair |-> pair, price |-> pd.price, timestamp |-> pd.timestamp]

(***************************************************************************)
(* State                                                                   *)
(***************************************************************************)

VARIABLES
    replay,     \* args.replay
    pc,         \* position of the process in main / replay_data
    latest,     \* store: key pair -> <<>> (absent) or <<text>>
    history,    \* store: key "history:"+pair -> list of texts, head first
    pair_i,     \* index in config.pairs of pair_config in the running for loop
    price,      \* main: local price ("" outside a pair's processing)
    timestamp,  \* main: local timestamp (0 outside a pair's processing)
    start,      \* replay_data: local start
    data,       \* replay_data: the chunk being processed
    data_i,     \* replay_data: index in data of the next json of the chunk
    now,        \* the clock Utc::now() reads
    runs,       \* number of process starts so far
    sent,       \* messages delivered to the chat by this run, in order
    read,       \* per pair, the texts lrange has returned to this run, in order
    events,     \* calls made by this run to the endpoint, the store and the bot
    store0      \* the store as this run found it when it connected

vars == <<replay, pc, latest, history, pair_i, price, timestamp, start, data,
          data_i, now, runs, sent, read, events, store0>>

store  == <<latest, history>>
locals == <<pair_i, price, timestamp, start, data, data_i>>

PairIdx == DOMAIN Pairs
pair    == Pairs[pair_i]

\* let json = serde_json::to_string(&price_data)?
json == to_string(PriceData(price, timestamp))

\* a call and its result; a fetch that gave a quote carries the quote, an
\* lrange carries its start index and the number of texts returned
Event(op, p, res) ==
    [op |-> op, pair |-> p, res |-> res, start |-> 0, n |-> 0,
     price |-> "", timestamp |-> 0, close |-> FALSE]
PageEvent(p, s, res, n) ==
    [op |-> "lrange", pair |-> p, res |-> res, start |-> s, n |-> n,
     price |-> "", timestamp |-> 0, close |-> FALSE]
\* close tells whether the result of the response held a last-trade price
QuoteEvent(p, pr, t, c) ==
    [op |-> "fetch", pair |-> p, res |-> "ok", start |-> 0, n |-> 0,
     price |-> pr, timestamp |-> t, close |-> c]

PairNames == {Pairs[i] : i \in PairIdx}

(***************************************************************************)
(* Initial states: the process has read its configuration and connected;   *)
(* the store holds what earlier runs (or another writer) left in it.       *)
(***************************************************************************)

\* a quote stored before this run: the i-th newest of its list
OldQuote(i) == PriceData("41000.0", 0 - i)

\* a History List of L entries, newest first, whose entries at the
\* positions in bad are cut short
OldHistory(L, bad) ==
    [i \in 1..L |-> IF i \in bad THEN Truncated(to_string(OldQuote(i)))
                                 ELSE to_string(OldQuote(i))]

\* list lengths left by earlier ingestion runs: none, one, one below the
\* trim bound, at the trim bound, and one above it (left by a run that
\* ended between its lpush and its ltrim)
InitLens == {0, 1, TRIM_STOP, TRIM_STOP + 1, TRIM_STOP + 2}

\* list lengths for the replay of a store written by anyone: around the
\* trim bound and around the page boundaries
ReplayLens == {0, 2, TRIM_STOP + 1, CHUNK_SIZE, CHUNK_SIZE + 1,
               MaxPages * CHUNK_SIZE, MaxPages * CHUNK_SIZE + 1}

\* positions of malformed entries in such a list
BadSets(L) == {{}, {1} \cap (1..L), {2, L, CHUNK_SIZE, CHUNK_SIZE + 1} \cap (1..L)}

InitProcess ==
    /\ pc = "main"
    /\ pair_i = 1
    /\ price = ""
    /\ timestamp = 0
    /\ start = 0
    /\ data = <<>>
    /\ data_i = 0
    /\ now = 0
    /\ runs = 1
    /\ sent = <<>>
    /\ read = [p \in PairNames |-> <<>>]
    /\ events = <<>>
    /\ store0 = [latest |-> latest, history |-> history]

Init ==
    /\ replay \in BOOLEAN
    /\ \E len \in [PairNames -> InitLens] :
          /\ \E bad \in [PairNames -> {{}, {2}}] :
                history = [p \in PairNames |-> OldHistory(len[p], bad[p] \cap (1..len[p]))]
          /\ latest = [p \in PairNames |->
                          IF len[p] = 0 THEN <<>> ELSE <<to_string(OldQuote(1))>>]
    /\ InitProcess

\* the list with its entries in the opposite order
Reverse(list) == [k \in 1..Len(list) |-> list[Len(list) + 1 - k]]

\* a replay started on a store whose lists have lengths among lens; the
\* store may have been written by anyone, so a list of two entries may also
\* hold the older entry first
InitReplayOn(lens) ==
    /\ replay = TRUE
    /\ \E len \in [PairNames -> lens] :
          /\ \E bad \in [PairNames -> UNION {BadSets(L) : L \in lens}] :
             \E rev \in [PairNames -> BOOLEAN] :
                /\ \A p \in PairNames : bad[p] \in BadSets(len[p])
                /\ \A p \in PairNames : rev[p] => len[p] = 2
                /\ history = [p \in PairNames |->
                                 IF rev[p] THEN Reverse(OldHistory(len[p], bad[p]))
                                           ELSE OldHistory(len[p], bad[p])]
          /\ latest = [p \in PairNames |->
                          IF len[p] = 0 THEN <<>> ELSE <<to_string(OldQuote(1))>>]
    /\ InitProcess

InitReplay == InitReplayOn(ReplayLens)

(***************************************************************************)
(* main: mode switch                                                       *)
(***************************************************************************)

\* if args.replay { replay_data(...).await?; return Ok(()) }
StartReplay ==
    /\ pc = "main"
    /\ replay
    /\ pc' = "r_for"
    /\ pair_i' = 1
    /\ UNCHANGED <<store0, replay, latest, history, price, timestamp, start, data,
                   data_i, now, runs, sent, read, events>>

\* let client = reqwest::Client::new(); loop { for pair_config in &config.pairs
StartIngestion ==
    /\ pc = "main"
    /\ ~replay
    /\ pc' = "fetch"
    /\ pair_i' = 1
    /\ UNCHANGED <<store0, replay, latest, history, price, timestamp, start, data,
                   data_i, now, runs, sent, read, events>>

(***************************************************************************)
(* replay_data                                                             *)
(***************************************************************************)

\* the paging of a pair started at index 1
ReplayNextPairFromOne ==
    /\ pc = "r_for"
    /\ pair_i \in PairIdx
    /\ start' = 1
    /\ pc' = "r_lrange"
    /\ UNCHANGED <<store0, replay, latest, history, pair_i, price, timestamp, data,
                   data_i, now, runs, sent, read, events>>

\* for pair_config in pairs { let key = ...; let mut start: isize = 0;
ReplayNextPair ==
    /\ pc = "r_for"
    /\ pair_i \in PairIdx
    /\ start' = 0
    /\ pc' = "r_lrange"
    /\ UNCHANGED <<store0, replay, latest, history, pair_i, price, timestamp, data,
                   data_i, now, runs, sent, read, events>>

\* main goes on into the ingestion loop after the replay
ReplayDoneFallsThrough ==
    /\ pc = "r_for"
    /\ pair_i \notin PairIdx
    /\ pc' = "fetch"
    /\ pair_i' = 1
    /\ UNCHANGED <<store0, replay, latest, history, price, timestamp, start,
                   data, data_i, now, runs, sent, read, events>>

\* the for loop is over: Ok(()), and main returns Ok(())
ReplayDone ==
    /\ pc = "r_for"
    /\ pair_i \notin PairIdx
    /\ pc' = "exit_ok"
    /\ UNCHANGED <<store0, replay, latest, history, pair_i, price, timestamp, start,
                   data, data_i, now, runs, sent, read, events>>

\* the loop of a pair is left on a page that is not full
ReplayLrangeBreaksOnShortPage ==
    /\ pc = "r_lrange"
    /\ LET d == LRange(history[pair], start, start + CHUNK_SIZE - 1) IN
          /\ events' = Append(events, PageEvent(pair, start, "ok", Len(d)))
          /\ read' = [read EXCEPT ![pair] = @ \o d]
          /\ IF Len(d) < CHUNK_SIZE
                THEN /\ pc' = "r_for"
                     /\ pair_i' = pair_i + 1
                     /\ UNCHANGED <<data, data_i>>
                ELSE /\ pc' = "r_chunk"
                     /\ data' = d
                     /\ data_i' = 1
                     /\ UNCHANGED pair_i
    /\ UNCHANGED <<store0, replay, latest, history, price, timestamp, start, now,
                   runs, sent>>

\* the entries of a page are processed oldest first
ReplayLrangeOldestFirst ==
    /\ pc = "r_lrange"
    /\ LET d == LRange(history[pair], start, start + CHUNK_SIZE - 1) IN
          /\ events' = Append(events, PageEvent(pair, start, "ok", Len(d)))
          /\ read' = [read EXCEPT ![pair] = @ \o d]
          /\ IF d = <<>>
                THEN /\ pc' = "r_for"
                     /\ pair_i' = pair_i + 1
                     /\ UNCHANGED <<data, data_i>>
                ELSE /\ pc' = "r_chunk"
                     /\ data' = Reverse(d)
                     /\ data_i' = 1
                     /\ UNCHANGED pair_i
    /\ UNCHANGED <<store0, replay, latest, history, price, timestamp, start, now,
                   runs, sent>>

\* let data = redis_con.lrange(&key, start, start + CHUNK_SIZE - 1)?;
\* if data.is_empty() { break; }
ReplayLrange ==
    /\ pc = "r_lrange"
    /\ LET d == LRange(history[pair], start, start + CHUNK_SIZE - 1) IN
          /\ events' = Append(events, PageEvent(pair, start, "ok", Len(d)))
          /\ read' = [read EXCEPT ![pair] = @ \o d]
          /\ IF d = <<>>
                THEN /\ pc' = "r_for"
                     /\ pair_i' = pair_i + 1
                     /\ UNCHANGED <<data, data_i>>
                ELSE /\ pc' = "r_chunk"
                     /\ data' = d
                     /\ data_i' = 1
                     /\ UNCHANGED pair_i
    /\ UNCHANGED <<store0, replay, latest, history, price, timestamp, start, now,
                   runs, sent>>

\* the lrange fails: ? returns the error from replay_data and from main
ReplayLrangeError ==
    /\ pc = "r_lrange"
    /\ events' = Append(events, PageEvent(pair, start, "err", 0))
    /\ pc' = "exit_err"
    /\ UNCHANGED <<store0, replay, latest, history, pair_i, price, timestamp, start,
                   data, data_i, now, runs, sent, read>>

\* the next chunk started one entry early
ReplayNextJsonOverlap ==
    IF data_i = Len(data)
      THEN /\ start' = start + CHUNK_SIZE - 1
           /\ data' = <<>>
           /\ data_i' = 0
           /\ pc' = "r_lrange"
      ELSE /\ data_i' = data_i + 1
           /\ UNCHANGED <<start, data, pc>>

\* the end of one iteration of for json in data; after the last one,
\* start += CHUNK_SIZE and the loop reads the next chunk
ReplayNextJson ==
    IF data_i = Len(data)
      THEN /\ start' = start + CHUNK_SIZE
           /\ data' = <<>>
           /\ data_i' = 0
           /\ pc' = "r_lrange"
      ELSE /\ data_i' = data_i + 1
           /\ UNCHANGED <<start, data, pc>>

\* if let Ok(price_data) = from_str(&json) { bot.send_message(..).await?; sleep }
ReplaySend ==
    /\ pc = "r_chunk"
    /\ from_str(data[data_i]) # <<>>
    /\ LET price_data == from_str(data[data_i])[1] IN
          sent' = Append(sent, HistoricalMessage(pair, price_data))
    /\ events' = Append(events, Event("send", pair, "ok"))
    /\ ReplayNextJson
    /\ UNCHANGED <<store0, replay, latest, history, pair_i, price, timestamp, now,
                   runs, read>>

\* the send fails: .context(..)? returns the error from replay_data and main
ReplaySendError ==
    /\ pc = "r_chunk"
    /\ from_str(data[data_i]) # <<>>
    /\ events' = Append(events, Event("send", pair, "err"))
    /\ pc' = "exit_err"
    /\ UNCHANGED <<store0, replay, latest, history, pair_i, price, timestamp, start,
                   data, data_i, now, runs, sent, read>>

\* from_str is Err: the if let has no else, the entry is passed over
ReplaySkip ==
    /\ pc = "r_chunk"
    /\ from_str(data[data_i]) = <<>>
    /\ ReplayNextJson
    /\ UNCHANGED <<store0, replay, latest, history, pair_i, price, timestamp, now,
                   runs, sent, read, events>>

ReplayStep ==
    \/ ReplayNextPair
    \/ ReplayDone
    \/ ReplayLrange
    \/ ReplayLrangeError
    \/ ReplaySend
    \/ ReplaySendError
    \/ ReplaySkip

(***************************************************************************)
(* main: the ingestion loop                                                *)
(***************************************************************************)

\* a loop that steps over every second pair
NextPairSkipsOne ==
    /\ pair_i' = pair_i + 2
    /\ pc' = IF pair_i + 1 >= Len(Pairs) THEN "sleep" ELSE "fetch"
    /\ price' = ""
    /\ timestamp' = 0

\* the end of one iteration of for pair_config in &config.pairs (also what
\* continue does); after the last pair the loop body reaches the sleep
NextPair ==
    /\ pair_i' = pair_i + 1
    /\ pc' = IF pair_i = Len(Pairs) THEN "sleep" ELSE "fetch"
    /\ price' = ""
    /\ timestamp' = 0

\* a transport error returned from main with ?
FetchTransportErrorFatal ==
    /\ pc = "fetch"
    /\ now < MaxClock
    /\ now' = now + 1
    /\ events' = Append(events, Event("fetch", pair, "transport"))
    /\ pc' = "exit_err"
    /\ UNCHANGED <<store0, replay, latest, history, pair_i, price, timestamp, start,
                   data, data_i, runs, sent, read>>

\* client.get(&url).send().await is Err(e): eprintln!("Failed to fetch ..")
FetchTransportError ==
    /\ pc = "fetch"
    /\ now < MaxClock
    /\ now' = now + 1
    /\ events' = Append(events, Event("fetch", pair, "transport"))
    /\ NextPair
    /\ UNCHANGED <<store0, replay, latest, history, start, data, data_i, runs, sent, read>>

\* response.json::<KrakenResponse>().await is Err(e): eprintln!("Failed to parse ..")
FetchDecodeError ==
    /\ pc = "fetch"
    /\ now < MaxClock
    /\ now' = now + 1
    /\ events' = Append(events, Event("fetch", pair, "decode"))
    /\ NextPair
    /\ UNCHANGED <<store0, replay, latest, history, start, data, data_i, runs, sent, read>>

\* the remote error logged without the continue: the result is used
FetchRemoteErrorFallsThrough ==
    /\ pc = "fetch"
    /\ now < MaxClock
    /\ \E r \in DOMAIN Responses :
          /\ Responses[r].error # <<>>
          /\ price' = ExtractPrice(Responses[r].result)
    /\ now' = now + 1
    /\ timestamp' = now'
    /\ events' = Append(events, Event("fetch", pair, "remote"))
    /\ pc' = "set"
    /\ UNCHANGED <<store0, replay, latest, history, pair_i, start, data, data_i, runs,
                   sent, read>>

\* if !kraken_data.error.is_empty() { eprintln!(..); continue; }
FetchRemoteError ==
    /\ pc = "fetch"
    /\ now < MaxClock
    /\ \E r \in DOMAIN Responses : Responses[r].error # <<>>
    /\ now' = now + 1
    /\ events' = Append(events, Event("fetch", pair, "remote"))
    /\ NextPair
    /\ UNCHANGED <<store0, replay, latest, history, start, data, data_i, runs, sent, read>>

\* a response without a price is passed over like a remote error
FetchOkSkipsMissingPrice ==
    /\ pc = "fetch"
    /\ now < MaxClock
    /\ now' = now + 1
    /\ \E r \in DOMAIN Responses :
          /\ Responses[r].error = <<>>
          /\ events' = Append(events, QuoteEvent(pair, ExtractPrice(Responses[r].result),
                                                 now', HasClose(Responses[r].result)))
          /\ IF ExtractPrice(Responses[r].result) = "N/A"
                THEN NextPair
                ELSE /\ price' = ExtractPrice(Responses[r].result)
                     /\ timestamp' = now'
                     /\ pc' = "set"
                     /\ UNCHANGED pair_i
    /\ UNCHANGED <<store0, replay, latest, history, start, data, data_i, runs,
                   sent, read>>

\* Ok(kraken_data) with an empty error list: extract the price, read the
\* clock, build price_data and json
FetchOk ==
    /\ pc = "fetch"
    /\ now < MaxClock
    /\ now' = now + 1
    /\ timestamp' = now'
    /\ \E r \in DOMAIN Responses :
          /\ Responses[r].error = <<>>
          /\ price' = ExtractPrice(Responses[r].result)
          /\ events' = Append(events, QuoteEvent(pair, price', timestamp',
                                                 HasClose(Responses[r].result)))
    /\ pc' = "set"
    /\ UNCHANGED <<store0, replay, latest, history, pair_i, start, data, data_i, runs,
                   sent, read>>

\* the record is written from a second reading of the clock
SetLatestReadsClockAgain ==
    /\ pc = "set"
    /\ latest' = [latest EXCEPT ![pair] = <<to_string(PriceData(price, timestamp + 1))>>]
    /\ events' = Append(events, Event("set", pair, "ok"))
    /\ pc' = "lpush"
    /\ UNCHANGED <<store0, replay, history, pair_i, price, timestamp, start, data,
                   data_i, now, runs, sent, read>>

\* let _: () = con.set(&pair_config.pair, &json)?;
SetLatest ==
    /\ pc = "set"
    /\ latest' = [latest EXCEPT ![pair] = <<json>>]
    /\ events' = Append(events, Event("set", pair, "ok"))
    /\ pc' = "lpush"
    /\ UNCHANGED <<store0, replay, history, pair_i, price, timestamp, start, data,
                   data_i, now, runs, sent, read>>

\* the quote is pushed twice
PushHistoryTwice ==
    /\ pc = "lpush"
    /\ history' = [history EXCEPT ![pair] = LPush(LPush(@, json), json)]
    /\ events' = Append(events, Event("lpush", pair, "ok"))
    /\ pc' = "ltrim"
    /\ UNCHANGED <<store0, replay, latest, pair_i, price, timestamp, start, data,
                   data_i, now, runs, sent, read>>

\* let _: () = con.lpush(&key, json.clone())?;
PushHistory ==
    /\ pc = "lpush"
    /\ history' = [history EXCEPT ![pair] = LPush(@, json)]
    /\ events' = Append(events, Event("lpush", pair, "ok"))
    /\ pc' = "ltrim"
    /\ UNCHANGED <<store0, replay, latest, pair_i, price, timestamp, start, data,
                   data_i, now, runs, sent, read>>

\* a trim that keeps the last 24 entries: ltrim(&key, -24, -1)
TrimHistoryKeepsTail ==
    /\ pc = "ltrim"
    /\ history' = [history EXCEPT ![pair] = LTrim(@, 0 - (TRIM_STOP + 1), 0 - 1)]
    /\ events' = Append(events, Event("ltrim", pair, "ok"))
    /\ pc' = "send"
    /\ UNCHANGED <<store0, replay, latest, pair_i, price, timestamp, start, data,
                   data_i, now, runs, sent, read>>

\* let _: () = con.ltrim(&key, 0, 23)?;
TrimHistory ==
    /\ pc = "ltrim"
    /\ history' = [history EXCEPT ![pair] = LTrim(@, 0, TRIM_STOP)]
    /\ events' = Append(events, Event("ltrim", pair, "ok"))
    /\ pc' = "send"
    /\ UNCHANGED <<store0, replay, latest, pair_i, price, timestamp, start, data,
                   data_i, now, runs, sent, read>>

\* set, lpush or ltrim is Err: ? returns the error from main, the process
\* ends; the command has not changed the store
StoreError ==
    /\ pc \in {"set", "lpush", "ltrim"}
    /\ events' = Append(events, Event(pc, pair, "err"))
    /\ pc' = "exit_err"
    /\ UNCHANGED <<store0, replay, latest, history, pair_i, price, timestamp, start,
                   data, data_i, now, runs, sent, read>>

\* bot.send_message(ChatId(chat_id), message).await is Ok
Notify ==
    /\ pc = "send"
    /\ sent' = Append(sent, UpdateMessage(pair, price, timestamp))
    /\ events' = Append(events, Event("send", pair, "ok"))
    /\ NextPair
    /\ UNCHANGED <<store0, replay, latest, history, start, data, data_i, now, runs, read>>

\* a send error returned from main with ?
NotifyErrorFatal ==
    /\ pc = "send"
    /\ events' = Append(events, Event("send", pair, "err"))
    /\ pc' = "exit_err"
    /\ UNCHANGED <<store0, replay, latest, history, pair_i, price, timestamp, start,
                   data, data_i, now, runs, sent, read>>

\* if let Err(e) = bot.send_message(..).await { eprintln!(..); }
NotifyError ==
    /\ pc = "send"
    /\ events' = Append(events, Event("send", pair, "err"))
    /\ NextPair
    /\ UNCHANGED <<store0, replay, latest, history, start, data, data_i, now, runs,
                   sent, read>>

\* time::sleep(Duration::from_secs(3600)).await; and loop { for .. again
Sleep ==
    /\ pc = "sleep"
    /\ events' = Append(events, Event("sleep", "", "ok"))
    /\ pair_i' = 1
    /\ pc' = "fetch"
    /\ UNCHANGED <<store0, replay, latest, history, price, timestamp, start, data,
                   data_i, now, runs, sent, read>>

IngestionStep ==
    \/ FetchTransportError
    \/ FetchDecodeError
    \/ FetchRemoteError
    \/ FetchOk
    \/ SetLatest
    \/ PushHistory
    \/ TrimHistory
    \/ StoreError
    \/ Notify
    \/ NotifyError
    \/ Sleep

(***************************************************************************)
(* The process ends and is started again on the same store                 *)
(***************************************************************************)

Restart ==
    /\ pc \in {"exit_ok", "exit_err"}
    /\ runs < MaxRuns
    /\ runs' = runs + 1
    /\ replay' \in BOOLEAN
    /\ pc' = "main"
    /\ pair_i' = 1
    /\ price' = ""
    /\ timestamp' = 0
    /\ start' = 0
    /\ data' = <<>>
    /\ data_i' = 0
    /\ sent' = <<>>
    /\ read' = [p \in PairNames |-> <<>>]
    /\ events' = <<>>
    /\ store0' = [latest |-> latest, history |-> history]
    /\ UNCHANGED <<latest, history, now>>

\* one run of the process, in either mode
Next ==
    \/ StartReplay
    \/ StartIngestion
    \/ ReplayStep
    \/ IngestionStep

Spec == Init /\ [][Next]_vars

\* runs that follow one another on the same store, from short lists
InitRestart ==
    /\ replay \in BOOLEAN
    /\ \E len \in [PairNames -> {0, TRIM_STOP + 1}] :
          /\ \E bad \in [PairNames -> {{}, {2}}] :
                history = [p \in PairNames |-> OldHistory(len[p], bad[p] \cap (1..len[p]))]
          /\ latest = [p \in PairNames |->
                          IF len[p] = 0 THEN <<>> ELSE <<to_string(OldQuote(1))>>]
    /\ InitProcess

NextRestart ==
    \/ Next
    \/ Restart

SpecRestart == InitRestart /\ [][NextRestart]_vars

\* the replay exporter alone, on a store of any content
NextReplay ==
    \/ StartReplay
    \/ ReplayStep

SpecReplay == InitReplay /\ [][NextReplay]_vars

\* every call of the replay returns, with a result or with an error, and
\* the sleep after a message ends: a replay that can take a step takes it
\* the lengths that decide the number of page reads: no entry, exactly one
\* page, and one entry more than the largest number of full pages
PageLens == {0, CHUNK_SIZE, MaxPages * CHUNK_SIZE + 1}

SpecReplayFair ==
    InitReplayOn(PageLens) /\ [][NextReplay]_vars /\ WF_vars(NextReplay)

(***************************************************************************)
(* Vocabulary of the properties                                            *)
(***************************************************************************)

Last(s) == s[Len(s)]

\* position of a pair in config.pairs
Idx(p) == CHOOSE i \in PairIdx : Pairs[i] = p

\* the messages of this run that name pair p, in the order sent
SentFor(p) == SelectSeq(sent, LAMBDA m : m.pair = p)

\* the bound of the History List: ltrim keeps the indices 0..TRIM_STOP
HistoryBound == TRIM_STOP + 1

StoreOps == {"set", "lpush", "ltrim"}

\* the ingestion step of this run that last wrote the list of p ran its
\* insert and its trim
StepCompleted(p) ==
    \E i \in DOMAIN events :
        /\ events[i] = Event("ltrim", p, "ok")
        /\ \A j \in (i + 1)..Len(events) : events[j] # Event("lpush", p, "ok")

\* the replay of this run has left the loop of pair p through its break
ReplayedPair(p) == replay /\ pc \in {"r_for", "r_lrange", "r_chunk", "exit_ok", "exit_err"}
                          /\ pair_i > Idx(p)

\* the stored texts of a list that deserialize, in the order of the list
Readable(list) == SelectSeq(list, LAMBDA s : s.complete)

\* the messages m are one historical message of pair p per text of list,
\* in the order of the list
OneMessagePerText(m, p, list) ==
    /\ Len(m) = Len(list)
    /\ \A i \in DOMAIN list :
          m[i] = [kind |-> "Historical Price", pair |-> p,
                  price |-> list[i].price, timestamp |-> list[i].timestamp]

\* the lrange calls of this run on the list of pair p, in order
PagesOf(p) == SelectSeq(events, LAMBDA e : e.op = "lrange" /\ e.pair = p)

WellFormed(list) == \A i \in DOMAIN list : from_str(list[i]) # <<>>

(***************************************************************************)
(* C1: once an ingestion step for a pair has run both its insert at the    *)
(* head and its trim, the History List of that pair holds at most 24       *)
(* entries, whatever its length was before and however many polls ran.     *)
(***************************************************************************)
C1_HistoryBounded ==
    \A p \in PairNames : StepCompleted(p) => Len(history[p]) <= HistoryBound

\* a completed step on a full list: the new quote is in, the oldest is out
C1_Witness ==
    \E p \in PairNames :
        /\ StepCompleted(p)
        /\ Len(history[p]) = HistoryBound
        /\ history[p][1].timestamp = now
        /\ history[p][HistoryBound] = to_string(OldQuote(HistoryBound - 1))

(***************************************************************************)
(* C2: when the step of a pair has fetched a quote (empty remote error     *)
(* list) and its three store calls have succeeded, the Latest-Price Record *)
(* of the pair is that quote and the head of its History List is that      *)
(* quote; no store call of the step changes a record of another pair.      *)
(***************************************************************************)
C2_StepStoresQuote ==
    [][ /\ (pc = "ltrim" /\ pc' = "send") =>
              /\ Last(events) = Event("lpush", pair, "ok")
              /\ timestamp = now
              /\ latest'[pair] = <<to_string(PriceData(price, timestamp))>>
              /\ history'[pair] # <<>>
              /\ history'[pair][1] = to_string(PriceData(price, timestamp))
        /\ (pc \in StoreOps) =>
              \A q \in PairNames \ {pair} :
                  latest'[q] = latest[q] /\ history'[q] = history[q]
      ]_vars

\* a step completed for a pair whose list already held an entry, while the
\* other pair has records of its own
C2_Witness ==
    /\ pc = "send"
    /\ latest[pair] = <<json>>
    /\ Len(history[pair]) > 1
    /\ history[pair][1] = json
    /\ \E q \in PairNames \ {pair} : latest[q] # <<>> /\ history[q] # <<>>

(***************************************************************************)
(* C3: a failure of set_latest or of push_history (insert or trim) in the  *)
(* ingestion loop does not stop the loop and does not block the            *)
(* notification: the run goes on and sends the message of that quote.      *)
(***************************************************************************)
C3_StoreFailureDoesNotStop ==
    \A i \in DOMAIN events :
        (events[i].op \in StoreOps /\ events[i].res = "err") =>
            /\ pc # "exit_err"
            /\ \/ pc \in {"lpush", "ltrim", "send"}
               \/ \E j \in (i + 1)..Len(events) :
                      events[j].op = "send" /\ events[j].pair = events[i].pair

(***************************************************************************)
(* C4: after the fetch of a pair has failed in transport or in decoding,   *)
(* no step of the same tick changes the Latest-Price Record or the History *)
(* List of that pair or sends a message for it, and the loop goes on with  *)
(* the pairs configured after it: it stands at the fetch of the next pair  *)
(* (at the sleep after the last one) and passes a later pair only by       *)
(* fetching it.                                                            *)
(***************************************************************************)
FetchFailedInTick(p, kinds) ==
    \E i \in DOMAIN events :
        /\ events[i].op = "fetch" /\ events[i].pair = p /\ events[i].res \in kinds
        /\ \A j \in (i + 1)..Len(events) : events[j].op # "sleep"

LoopGoesOnAfter(kinds) ==
    /\ (events # <<>> /\ Last(events).op = "fetch" /\ Last(events).res \in kinds) =>
          /\ pair_i = Idx(Last(events).pair) + 1
          /\ pc = IF pair_i \in PairIdx THEN "fetch" ELSE "sleep"
    /\ \A i \in DOMAIN events :
          (/\ events[i].op = "fetch" /\ events[i].res \in kinds
           /\ \A j \in (i + 1)..Len(events) : events[j].op # "sleep") =>
              \A m \in (Idx(events[i].pair) + 1)..(pair_i - 1) :
                  \E j \in (i + 1)..Len(events) :
                      events[j].op = "fetch" /\ events[j].pair = Pairs[m]

NoEffectOn(p) ==
    /\ latest'[p] = latest[p]
    /\ history'[p] = history[p]
    /\ SentFor(p)' = SentFor(p)
    /\ \/ events' = events
       \/ Last(events').pair # p
       \/ Last(events').op = "fetch"

C4_FetchFailureIsolated ==
    [][ /\ \A p \in PairNames :
              FetchFailedInTick(p, {"transport", "decode"})' => NoEffectOn(p)
        /\ LoopGoesOnAfter({"transport", "decode"})'
      ]_vars

\* the first pair's fetch failed and the second pair of the same tick has
\* been fetched, stored and notified
C4_Witness ==
    /\ pc = "sleep"
    /\ FetchFailedInTick(Pairs[1], {"transport", "decode"})
    /\ latest[Pairs[1]] # <<>> /\ latest[Pairs[1]][1].timestamp < 0
    /\ SentFor(Pairs[1]) = <<>>
    /\ Len(SentFor(Pairs[2])) = 1
    /\ latest[Pairs[2]] # <<>> /\ latest[Pairs[2]][1].timestamp = now

(***************************************************************************)
(* C5: a replay that has gone through a pair whose History List holds      *)
(* N <= 24 entries, all well-formed, has sent exactly N historical         *)
(* messages for that pair, the i-th of them for the i-th stored entry      *)
(* (most recent first); for an empty list it has sent none.                *)
(***************************************************************************)
C5_ReplaySendsEachEntry ==
    \A p \in PairNames :
        (ReplayedPair(p) /\ Len(history[p]) <= HistoryBound /\ WellFormed(history[p])) =>
            OneMessagePerText(SentFor(p), p, history[p])

\* a finished replay of one full list and one empty list
C5_Witness ==
    /\ replay
    /\ pc = "exit_ok"
    /\ \E p, q \in PairNames :
          /\ Len(history[p]) = HistoryBound
          /\ WellFormed(history[p])
          /\ Len(SentFor(p)) = HistoryBound
          /\ SentFor(p)[1].timestamp > SentFor(p)[HistoryBound].timestamp
          /\ history[q] = <<>>
          /\ SentFor(q) = <<>>

(***************************************************************************)
(* C6: the replay reads the History List of a pair in consecutive pages of *)
(* CHUNK_SIZE entries from offset 0; a page asked at an offset at or past  *)
(* the stored length is empty, the first empty page ends the loop of the   *)
(* pair, and what the pages have returned when the loop ends is the stored *)
(* list, every entry once and in order (also for a length of CHUNK_SIZE    *)
(* and of CHUNK_SIZE + 1).                                                 *)
(***************************************************************************)
C6_Pagination ==
    \A p \in PairNames :
        LET pg == PagesOf(p) IN
        /\ \A k \in DOMAIN pg :
              /\ pg[k].start = (k - 1) * CHUNK_SIZE
              /\ (pg[k].res = "ok" /\ pg[k].start >= Len(history[p])) => pg[k].n = 0
              /\ k < Len(pg) => (pg[k].res = "ok" /\ pg[k].n > 0)
        /\ Len(read[p]) <= Len(history[p])
        /\ read[p] = SubSeq(history[p], 1, Len(read[p]))
        /\ ReplayedPair(p) <=> (pg # <<>> /\ Last(pg).res = "ok" /\ Last(pg).n = 0)
        /\ ReplayedPair(p) => read[p] = history[p]

\* a finished replay of a list of exactly one page and of a list of one
\* page and one entry
C6_Witness ==
    /\ pc = "exit_ok"
    /\ Len(history[Pairs[1]]) = CHUNK_SIZE
    /\ Len(PagesOf(Pairs[1])) = 2
    /\ Len(history[Pairs[2]]) = CHUNK_SIZE + 1
    /\ Len(PagesOf(Pairs[2])) = 3
    /\ PagesOf(Pairs[2])[2].n = 1
    /\ read = history

(***************************************************************************)
(* C7: a failed send of the replay is logged and the replay goes on with   *)
(* the next entry; a replay run ends early only on a failed store read.    *)
(***************************************************************************)
C7_ReplaySendFailureRecoverable ==
    replay =>
        /\ \A i \in DOMAIN events :
              (events[i].op = "send" /\ events[i].res = "err") => pc # "exit_err"
        /\ pc = "exit_err" => Last(events).op = "lrange"

(***************************************************************************)
(* C8: the replay passes over a stored entry that does not deserialize and *)
(* sends every well-formed entry before and after it: when it is through   *)
(* with a pair, the messages sent for the pair are one per well-formed     *)
(* entry of its list, in the order of the list; and within a pair, one per *)
(* well-formed entry among those already processed.                        *)
(***************************************************************************)
C8_MalformedEntrySkipped ==
    replay =>
        /\ \A p \in PairNames :
              ReplayedPair(p) =>
                  OneMessagePerText(SentFor(p), p, Readable(history[p]))
        /\ pc = "r_chunk" =>
              OneMessagePerText(SentFor(pair), pair,
                  Readable(SubSeq(history[pair], 1, start + data_i - 1)))

\* a finished replay of a two-page list with malformed entries at both
\* sides of the page boundary, followed by well-formed ones
C8_Witness ==
    /\ pc = "exit_ok"
    /\ \E p \in PairNames :
          /\ Len(history[p]) > CHUNK_SIZE + 1
          /\ ~history[p][CHUNK_SIZE].complete
          /\ ~history[p][CHUNK_SIZE + 1].complete
          /\ history[p][CHUNK_SIZE + 2].complete
          /\ Len(SentFor(p)) = Len(history[p]) - 4
          /\ Last(SentFor(p)).timestamp = 1 - Len(history[p])
    /\ \A q \in PairNames : Len(SentFor(q)) > 0

(***************************************************************************)
(* C9: a failed send of the ingestion loop is not fatal: the records       *)
(* written for the pair stay, the send is not made again, the loop goes on *)
(* with the next configured pair (with the sleep after the last one), and  *)
(* after the sleep with the first pair of the next tick.                   *)
(***************************************************************************)
C9_NotifyFailureNonFatal ==
    ~replay =>
        \A i \in DOMAIN events :
            (events[i].op = "send" /\ events[i].res = "err") =>
                LET p == events[i].pair
                    after == IF Idx(p) = Len(Pairs)
                               THEN Event("sleep", "", "ok")
                               ELSE Event("fetch", Pairs[Idx(p) + 1], "ok")
                IN
                /\ i > 3
                /\ events[i - 3] = Event("set", p, "ok")
                /\ events[i - 2] = Event("lpush", p, "ok")
                /\ events[i - 1] = Event("ltrim", p, "ok")
                /\ i = Len(events) =>
                      /\ pair_i = Idx(p) + 1
                      /\ pc = IF pair_i \in PairIdx THEN "fetch" ELSE "sleep"
                      /\ latest[p] # <<>> /\ latest[p][1].timestamp = now
                      /\ history[p] # <<>> /\ history[p][1] = latest[p][1]
                /\ i < Len(events) =>
                      /\ events[i + 1].op = after.op
                      /\ events[i + 1].pair = after.pair
                /\ (i + 1 < Len(events) /\ after.op = "sleep") =>
                      /\ events[i + 2].op = "fetch"
                      /\ events[i + 2].pair = Pairs[1]

\* the send for the last pair failed, and the first pair has been fetched
\* again in the next tick
C9_Witness ==
    /\ ~replay
    /\ Len(events) > 2
    /\ events[Len(events) - 2] = Event("send", Pairs[Len(Pairs)], "err")
    /\ Last(events).op = "fetch"
    /\ Last(events).pair = Pairs[1]
    /\ latest[Pairs[Len(Pairs)]][1].timestamp > 0

(***************************************************************************)
(* C10: a decoded response whose error list is not empty has the effect of *)
(* a failed fetch, whatever its result holds: no step of the tick changes  *)
(* a record of that pair or sends a message for it, and the loop goes on   *)
(* with the next pair.                                                     *)
(***************************************************************************)
C10_RemoteErrorIsolated ==
    [][ /\ \A p \in PairNames : FetchFailedInTick(p, {"remote"})' => NoEffectOn(p)
        /\ LoopGoesOnAfter({"remote"})'
      ]_vars

\* the first pair was stored and notified, the last pair answered with a
\* remote error, and the tick is over
C10_Witness ==
    /\ pc = "sleep"
    /\ Last(events) = Event("fetch", Pairs[Len(Pairs)], "remote")
    /\ SentFor(Pairs[Len(Pairs)]) = <<>>
    /\ Len(SentFor(Pairs[1])) = 1
    /\ \A p \in PairNames : latest[p] # <<>>
    /\ latest[Pairs[Len(Pairs)]][1].timestamp < 0

(***************************************************************************)
(* C11: with every store call succeeding, after k polls of a pair have     *)
(* pushed their quotes the History List of the pair is the min(k, 24)      *)
(* newest of the quotes ingested, newest first.  The list the run found    *)
(* (of L <= 24 entries) stands for the L polls made before the run, so     *)
(* k = L + the pushes of this run.  Between the insert and the trim the    *)
(* list holds at most one entry more, so the trim evicts the single oldest *)
(* entry and nothing else.                                                 *)
(***************************************************************************)
Take(seq, n) == SubSeq(seq, 1, IF Len(seq) < n THEN Len(seq) ELSE n)

\* positions in events of the successful lpush calls for pair p
PushIndices(p) ==
    SelectSeq([i \in 1..Len(events) |-> i],
              LAMBDA i : events[i].op = "lpush" /\ events[i].pair = p /\ events[i].res = "ok")

\* the texts of the quotes this run has pushed for pair p, newest first:
\* the quote of a push is the one its fetch returned, two calls earlier
Pushed(p) ==
    LET ix == PushIndices(p) IN
    [k \in 1..Len(ix) |->
        LET e == events[ix[Len(ix) + 1 - k] - 2] IN
        [complete |-> TRUE, price |-> e.price, timestamp |-> e.timestamp]]

NoStoreError == \A i \in DOMAIN events : ~(events[i].op \in StoreOps /\ events[i].res = "err")

C11_NewestWindow ==
    \A p \in PairNames :
        (Len(store0.history[p]) <= HistoryBound /\ NoStoreError) =>
            history[p] = Take(Pushed(p) \o store0.history[p],
                              IF pc = "ltrim" /\ pair = p THEN HistoryBound + 1
                                                         ELSE HistoryBound)

\* two polls on a full list: the two new quotes lead, the two oldest
\* entries are gone and the others kept their order
C11_Witness ==
    \E p \in PairNames :
        /\ Len(store0.history[p]) = HistoryBound
        /\ Len(PushIndices(p)) = 2
        /\ StepCompleted(p)
        /\ NoStoreError
        /\ Len(history[p]) = HistoryBound
        /\ history[p][1].timestamp > history[p][2].timestamp
        /\ history[p][2].timestamp > 0
        /\ \A i \in 3..HistoryBound : history[p][i] = store0.history[p][i - 2]

(***************************************************************************)
(* C12: the calls of an ingestion run come in this order: the fetch of a   *)
(* pair, then its set, then its lpush and ltrim, then its send; the call   *)
(* after the last call of a pair is the fetch of the pair configured next, *)
(* and after the last pair the sleep; a tick starts with the first         *)
(* configured pair.                                                        *)
(***************************************************************************)
\* the call that follows the end of the processing of pair p
AfterPair(f, p) ==
    IF Idx(p) = Len(Pairs)
      THEN f.op = "sleep"
      ELSE f.op = "fetch" /\ f.pair = Pairs[Idx(p) + 1]

Follows(e, f) ==
    CASE e.op = "fetch" /\ e.res = "ok" -> f.op = "set" /\ f.pair = e.pair
      [] e.op = "fetch" /\ e.res # "ok" -> AfterPair(f, e.pair)
      [] e.op = "set"   -> e.res = "ok" /\ f.op = "lpush" /\ f.pair = e.pair
      [] e.op = "lpush" -> e.res = "ok" /\ f.op = "ltrim" /\ f.pair = e.pair
      [] e.op = "ltrim" -> e.res = "ok" /\ f.op = "send" /\ f.pair = e.pair
      [] e.op = "send"  -> AfterPair(f, e.pair)
      [] e.op = "sleep" -> f.op = "fetch" /\ f.pair = Pairs[1]
      [] OTHER -> FALSE

C12_CallOrder ==
    ~replay =>
        /\ events # <<>> => (events[1].op = "fetch" /\ events[1].pair = Pairs[1])
        /\ \A i \in 1..(Len(events) - 1) : Follows(events[i], events[i + 1])

\* a whole tick of two pairs, each fetched, stored and notified, the sleep,
\* and the first fetch of the next tick
C12_Witness ==
    /\ ~replay
    /\ Len(events) = 5 * Len(Pairs) + 2
    /\ \A i \in PairIdx :
          /\ events[5 * i - 4].op = "fetch" /\ events[5 * i - 4].pair = Pairs[i]
          /\ events[5 * i].op = "send" /\ events[5 * i].pair = Pairs[i]
    /\ events[5 * Len(Pairs) + 1].op = "sleep"
    /\ Last(events).op = "fetch"

(***************************************************************************)
(* C13: the ingestion loop has no terminal state: whatever fails for an    *)
(* item (fetch, decode, remote error, store call, send), the process does  *)
(* not leave the loop.                                                     *)
(***************************************************************************)
C13_IngestionNeverExits ==
    ~replay => pc \notin {"exit_ok", "exit_err"}


(***************************************************************************)
(* C14: a replay over finite History Lists that nothing modifies during    *)
(* the run terminates; it has left the loop of a pair whose list holds L   *)
(* entries after exactly ceil(L / CHUNK_SIZE) non-empty page reads and one *)
(* final empty read, and it ends normally only when it has left the loop   *)
(* of the last pair this way.                                              *)
(***************************************************************************)
Exited == pc \in {"exit_ok", "exit_err"}

\* ceil(L / CHUNK_SIZE)
PagesNeeded(L) == (L + CHUNK_SIZE - 1) \div CHUNK_SIZE

\* the page reads of pair p are the non-empty pages its list needs and one
\* empty page after them
ExhaustedPages(p) ==
    LET pg == PagesOf(p) IN
    /\ Len(pg) = PagesNeeded(Len(history[p])) + 1
    /\ \A k \in 1..(Len(pg) - 1) : pg[k].res = "ok" /\ pg[k].n > 0
    /\ Last(pg).res = "ok" /\ Last(pg).n = 0

C14_ReplayTerminates ==
    /\ <>Exited
    /\ [](history = store0.history)
    /\ [](\A p \in PairNames : ReplayedPair(p) => ExhaustedPages(p))
    /\ [](pc = "exit_ok" => \A p \in PairNames : ReplayedPair(p))
    /\ [](pc = "exit_err" => Last(events).res = "err")

\* a finished replay of a list of MaxPages pages and one entry and of an
\* empty list: MaxPages + 1 non-empty reads and an empty one, and one empty
\* read
C14_Witness ==
    /\ pc = "exit_ok"
    /\ \E p, q \in PairNames :
          /\ Len(history[p]) = MaxPages * CHUNK_SIZE + 1
          /\ Len(PagesOf(p)) = MaxPages + 2
          /\ PagesOf(p)[MaxPages + 1].n = 1
          /\ PagesOf(p)[MaxPages + 2].n = 0
          /\ history[q] = <<>>
          /\ Len(PagesOf(q)) = 1

(***************************************************************************)
(* C15: the messages of a replay are grouped by pair in the order of       *)
(* config.pairs: no message of a pair follows a message of a pair          *)
(* configured after it, whatever the timestamps of the entries; and the    *)
(* messages of a pair follow the order of its stored list, not the order   *)
(* of their timestamps.                                                    *)
(***************************************************************************)
C15_GroupedByPair ==
    replay =>
        /\ \A i \in 1..(Len(sent) - 1) : Idx(sent[i].pair) <= Idx(sent[i + 1].pair)
        /\ \A p \in PairNames :
              LET m == SentFor(p)
                  r == Readable(history[p]) IN
              /\ Len(m) <= Len(r)
              /\ \A k \in DOMAIN m : m[k].timestamp = r[k].timestamp

\* a finished replay whose last message for the first pair is older than
\* the first message for the second pair, the first pair sent newest
\* first and the second oldest first, each as stored
C15_Witness ==
    /\ pc = "exit_ok"
    /\ LET m1 == SentFor(Pairs[1])
           m2 == SentFor(Pairs[2]) IN
          /\ Len(m1) >= 2
          /\ Len(m2) >= 2
          /\ Last(m1).timestamp < m2[1].timestamp
          /\ m1[1].timestamp > m1[2].timestamp
          /\ m2[1].timestamp < m2[2].timestamp
          /\ history[Pairs[2]][1].timestamp < history[Pairs[2]][2].timestamp

(***************************************************************************)
(* C16: a response with an empty error list from which no price can be     *)
(* extracted is not an error: its quote has the price "N/A", and the step  *)
(* goes on with it as with any quote: the set writes it to the             *)
(* Latest-Price Record, the lpush puts it at the head of the History List, *)
(* the trim follows, and one notification is sent for it.                  *)
(***************************************************************************)
\* the stored text of the quote a fetch event carries
QuoteText(e) == to_string(PriceData(e.price, e.timestamp))

\* the positions in sent of the notifications of the quote of event e
NotificationsOf(e) ==
    {k \in DOMAIN sent : sent[k] = UpdateMessage(e.pair, e.price, e.timestamp)}

\* the fetch at position i of events gave a quote without a last-trade price
PriceMissAt(i) ==
    /\ events[i].op = "fetch"
    /\ events[i].res = "ok"
    /\ ~events[i].close

C16_MissingPriceIsStored ==
    \A i \in DOMAIN events :
        PriceMissAt(i) =>
            LET e == events[i]
                n == Len(events) IN
            /\ e.price = "N/A"
            /\ n = i => (pc = "set" /\ price = "N/A")
            /\ n > i => events[i + 1].op = "set"
            /\ (n = i + 1 /\ events[n].res = "ok") =>
                    (pc = "lpush" /\ latest[e.pair] = <<QuoteText(e)>>)
            /\ n > i + 1 => events[i + 2].op = "lpush"
            /\ (n = i + 2 /\ events[n].res = "ok") =>
                    /\ pc = "ltrim"
                    /\ latest[e.pair] = <<QuoteText(e)>>
                    /\ history[e.pair][1] = QuoteText(e)
            /\ n > i + 2 => events[i + 3].op = "ltrim"
            /\ (n = i + 3 /\ events[n].res = "ok") =>
                    /\ pc = "send"
                    /\ latest[e.pair] = <<QuoteText(e)>>
                    /\ history[e.pair][1] = QuoteText(e)
                    /\ NotificationsOf(e) = {}
            /\ n > i + 3 => events[i + 4].op = "send"
            /\ (n > i + 3 /\ events[i + 4].res = "ok") =>
                    Cardinality(NotificationsOf(e)) = 1
            /\ (n = i + 4 /\ events[n].res = "ok") =>
                    /\ latest[e.pair] = <<QuoteText(e)>>
                    /\ history[e.pair][1] = QuoteText(e)
                    /\ Last(sent) = UpdateMessage(e.pair, "N/A", e.timestamp)

\* a step whose response held no price has stored the quote "N/A" at the
\* head of a list of priced quotes and has sent it
C16_Witness ==
    \E i \in DOMAIN events :
        /\ PriceMissAt(i)
        /\ Len(events) = i + 4
        /\ Last(events) = Event("send", events[i].pair, "ok")
        /\ latest[events[i].pair][1].price = "N/A"
        /\ history[events[i].pair][1].price = "N/A"
        /\ Len(history[events[i].pair]) > 1
        /\ history[events[i].pair][2].price # "N/A"
        /\ Last(sent).price = "N/A"
        /\ Last(sent).kind = UpdateMessage("", "", 0).kind

(***************************************************************************)
(* C17: a run is in one mode from its start to its end.  A run started     *)
(* with --replay makes no fetch and no store write: its only calls are     *)
(* page reads and sends of historical messages, and every Latest-Price     *)
(* Record and History List stays as the run found it.  A run started       *)
(* without it reads no history page and sends no historical message.       *)
(***************************************************************************)
ReplayPositions == {"r_for", "r_lrange", "r_chunk"}

IngestionPositions == {"fetch", "set", "lpush", "ltrim", "send", "sleep"}

C17_ModesExclusive ==
    /\ replay =>
          /\ pc \notin IngestionPositions
          /\ \A i \in DOMAIN events : events[i].op \in {"lrange", "send"}
          /\ \A k \in DOMAIN sent : sent[k].kind = HistoricalMessage("", PriceData("", 0)).kind
          /\ latest = store0.latest
          /\ history = store0.history
          /\ now = 0
    /\ ~replay =>
          /\ pc \notin ReplayPositions
          /\ \A i \in DOMAIN events : events[i].op # "lrange"
          /\ \A k \in DOMAIN sent : sent[k].kind = UpdateMessage("", "", 0).kind
          /\ \A p \in PairNames : read[p] = <<>>

\* a finished replay of two lists, one above the trim bound: all their
\* readable entries sent, the store as it was
C17_Witness ==
    /\ replay
    /\ pc = "exit_ok"
    /\ \E p \in PairNames : Len(history[p]) > HistoryBound
    /\ \A p \in PairNames :
          /\ history[p] # <<>>
          /\ latest[p] # <<>>
          /\ Len(SentFor(p)) = Len(Readable(history[p]))
    /\ history = store0.history
    /\ latest = store0.latest

(***************************************************************************)
(* C18: the History List of a pair holds at most 25 entries in every       *)
(* reachable state of the store, also between the insert at the head and   *)
(* the trim and after a failed trim, whatever polls and store failures     *)
(* came before.                                                            *)
(***************************************************************************)
C18_AtMostOneAboveBound ==
    \A p \in PairNames : Len(history[p]) <= HistoryBound + 1

\* the length a run cannot push the list of p above, but for the entry
\* between its lpush and its ltrim
RunBound(p) == Max(HistoryBound, Len(store0.history[p]))

\* the run is at the trim of pair p, or has ended on the failure of it
AtTrimOf(p) ==
    /\ pair_i = Idx(p)
    /\ \/ pc = "ltrim"
       \/ pc = "exit_err" /\ Last(events) = Event("ltrim", p, "err")

(***************************************************************************)
(* C18, amended: within one run of the process the History List of a pair  *)
(* holds at most one entry more than the larger of 24 and its length when  *)
(* the run started, and the one entry more only between the insert and the *)
(* trim or after the trim has failed; a failed trim ends the run and       *)
(* leaves the entry in the list, so over runs that follow one another on   *)
(* a list of at most 24 entries the list holds at most 24 entries plus one *)
(* per run.                                                                *)
(***************************************************************************)
C18_OneMorePerRun ==
    \A p \in PairNames :
        /\ Len(history[p]) <= RunBound(p) + 1
        /\ Len(history[p]) > RunBound(p) => AtTrimOf(p)
        /\ Len(history[p]) <= HistoryBound + runs

\* a second run has ended on a failed trim as the first did: the list
\* that held 24 entries holds 26
C18_Witness ==
    \E p \in PairNames :
        /\ runs = 2
        /\ AtTrimOf(p)
        /\ pc = "exit_err"
        /\ Len(store0.history[p]) = HistoryBound + 1
        /\ Len(history[p]) = HistoryBound + 2

(***************************************************************************)
(* C19: in an ingestion run that started on an empty store (or on any      *)
(* store whose records equal the heads of their lists) and that no other   *)
(* writer touches, every pair that has a Latest-Price Record has a         *)
(* non-empty History List whose head equals the record whenever the loop   *)
(* is between two pair steps and no store call has failed; for a pair the  *)
(* two differ only between the set and the lpush of its step, or after     *)
(* the lpush has failed.                                                   *)
(***************************************************************************)
\* in the store st, a pair that has a record has it at the head of its list
HeadIsLatest(st, p) ==
    st.latest[p] # <<>> =>
        (st.history[p] # <<>> /\ st.history[p][1] = st.latest[p][1])

BetweenPairSteps == pc \in {"main", "fetch", "sleep"}

\* the run is between the set and the lpush of pair p, or has ended on the
\* failure of that lpush
BetweenWritesOf(p) ==
    /\ pair_i = Idx(p)
    /\ \/ pc = "lpush"
       \/ pc = "exit_err" /\ Last(events) = Event("lpush", p, "err")

C19_HeadEqualsLatest ==
    (~replay /\ \A p \in PairNames : HeadIsLatest(store0, p)) =>
        /\ (BetweenPairSteps /\ NoStoreError) =>
              \A p \in PairNames : HeadIsLatest([latest |-> latest, history |-> history], p)
        /\ \A p \in PairNames :
              \/ HeadIsLatest([latest |-> latest, history |-> history], p)
              \/ BetweenWritesOf(p)

\* a run that found the store empty has stored a quote of every pair and
\* slept: every record is the head of its list
C19_Witness ==
    /\ ~replay
    /\ \A p \in PairNames : store0.latest[p] = <<>> /\ store0.history[p] = <<>>
    /\ pc = "fetch"
    /\ events # <<>>
    /\ Last(events).op = "sleep"
    /\ NoStoreError
    /\ \A p \in PairNames :
          /\ latest[p] # <<>>
          /\ Len(history[p]) = 1
          /\ history[p][1] = latest[p][1]
    /\ latest[Pairs[1]][1].timestamp < latest[Pairs[2]][1].timestamp

====
